---- MODULE Spec2Model ----
(***************************************************************************)
(* Ledger engine of splitit: expenditures and their splits, the balance    *)
(* and occasion-summary queries, settlement of a split, manual payments,   *)
(* and the deletions that cascade into the ledger.                         *)
(*                                                                         *)
(* Money is counted in cents (DecimalField, decimal_places=2).  Rows are   *)
(* kept in sequences indexed by primary key; a deleted row leaves a        *)
(* tombstone, since AutoField keys are never handed out twice.             *)
(* Timestamps, names and the expenditures' descriptions are left out: no   *)
(* handler branches on them.  A payment keeps its description.             *)
(* The scenarios start with two occasions and three events; users create  *)
(* more, move events and delete them.                                      *)
(* Every ORM statement commits on its own (no handler opens a              *)
(* transaction), so a handler that raises keeps the rows it wrote before;  *)
(* only the cascade of a delete() runs in one transaction.  A handler is   *)
(* one step where requests are served one at a time; settle, the balance   *)
(* query, and the create, update and delete requests served together with  *)
(* them are also given statement by statement, each on a worker.           *)
(***************************************************************************)
EXTENDS Integers, Sequences, FiniteSets, TLC

VARIABLES expenditures, splits, payments, events, occasions, last, req

vars == <<expenditures, splits, payments, events, occasions, last, req>>
store == <<expenditures, splits, payments>>
catalog == <<events, occasions>>

(* ------------------------------ bounds -------------------------------- *)
MaxExpenditures == 2
MaxPayments == 1
MaxAmount == 2
MaxSplitUsers == 2

(* ----------------------------- fixtures ------------------------------- *)
Users == {1, 2, 3}
None == 0

\* Every key handed out so far to an event, to an occasion.
Events == 1..Len(events)
Occasions == 1..Len(occasions)

\* Occasion.created_by, Event.created_by.
OccasionOwner(o) == occasions[o].created_by
EventOwner(e) == events[e].created_by

Workers == {1, 2, 3}

(* ------------------------------ helpers ------------------------------- *)
RECURSIVE SumSeq(_)
SumSeq(s) == IF s = <<>> THEN 0 ELSE Head(s) + SumSeq(Tail(s))

RECURSIVE SumOver(_, _)
\* Sum('amount') over the rows of `rows` whose keys are in `ids`.
SumOver(rows, ids) ==
    IF ids = {} THEN 0
    ELSE LET i == CHOOSE x \in ids : TRUE
         IN rows[i].amount + SumOver(rows, ids \ {i})

\* aggregate(total=Sum('amount'))['total'] or Decimal('0.00'): Sum over no
\* rows is NULL, which the handler replaces by zero.
Aggregate(rows, ids) == IF ids = {} THEN 0 ELSE SumOver(rows, ids)

\* A value stored in a DecimalField(decimal_places=2): num/den cents
\* quantized to whole cents, ties to even (the decimal context's rounding).
Quantize(num, den) ==
    LET q == num \div den
        r == num % den
    IN IF 2 * r < den THEN q
       ELSE IF 2 * r > den THEN q + 1
       ELSE IF q % 2 = 0 THEN q ELSE q + 1

Deleted == [deleted |-> TRUE]
Live(p) == p # Deleted

\* The keys of the rows a table holds.
LiveKeys(rows) == {i \in 1..Len(rows) : Live(rows[i])}
ExpenditureIds == LiveKeys(expenditures)
SplitIds == LiveKeys(splits)
PaymentIds == LiveKeys(payments)
EventIds == LiveKeys(events)
OccasionIds == LiveKeys(occasions)

\* Event.occasion (nullable) of an event; a deleted event is in none.
EventOccasion(e) == IF Live(events[e]) THEN events[e].occasion ELSE None

\* Payment.expenditure_split is a OneToOneField: the rows referencing split sid.
PaymentsOf(pays, sid) ==
    {i \in 1..Len(pays) : Live(pays[i]) /\ pays[i].expenditure_split = sid}

\* `last` is the latest request answered and its response: the operation,
\* the HTTP status and what the checks read of the request and the body.
Resp(op, status, body) == [op |-> op, status |-> status, body |-> body]
NoBody == [none |-> TRUE]

\* A worker process between requests.
IdleReq == [pc |-> "idle"]
\* No request is part-way through on any worker.
Quiet == \A w \in Workers : req[w].pc = "idle"

(* ------------------------- on_delete: the cascade --------------------- *)
\* The rows of a table without those whose keys are in ids.
Without(rows, ids) ==
    [i \in 1..Len(rows) |-> IF i \in ids THEN Deleted ELSE rows[i]]

\* ExpenditureSplit.expenditure is CASCADE: the splits of expenditures xs.
SplitsOfExpenditures(spl, xs) ==
    {i \in LiveKeys(spl) : spl[i].expenditure \in xs}

\* Expenditure.event is CASCADE: the expenditures of the events evs.
ExpendituresOfEvents(exps, evs) ==
    {x \in LiveKeys(exps) : exps[x].event \in evs}

\* Payment.expenditure_split is SET_NULL: the payments of the splits sids
\* lose their link and stay.
Unlinked(pays, sids) ==
    [p \in 1..Len(pays) |->
        IF Live(pays[p]) /\ pays[p].expenditure_split \in sids
        THEN [pays[p] EXCEPT !.expenditure_split = None]
        ELSE pays[p]]

(* ------------------------ ExpenditureSerializer ----------------------- *)
\* A faulty variant of validate: the amounts are not added up.
validate_without_sum(data) ==
    IF data.split_type = "custom"
    THEN /\ data.custom_amounts # <<>>
         /\ data.split_user_ids # <<>>
         /\ Len(data.custom_amounts) = Len(data.split_user_ids)
    ELSE TRUE

\* validate(): the custom-split checks; TRUE when the data is accepted.
validate(data) ==
    IF data.split_type = "custom"
    THEN /\ data.custom_amounts # <<>>
         /\ data.split_user_ids # <<>>
         /\ Len(data.custom_amounts) = Len(data.split_user_ids)
         /\ SumSeq(data.custom_amounts) = data.amount
    ELSE TRUE

\* is_valid() of a create or a PUT: the event is an existing one
\* (PrimaryKeyRelatedField), the amount at least 0.01, validate() passes.
ExpenditureValid(data) ==
    /\ data.event \in EventIds
    /\ data.amount >= 1
    /\ validate(data)

\* A faulty variant of SplitInsertOk: no unique index on (expenditure, user).
SplitInsertAnyPair(spl, eid, uid) == uid \in Users

\* ExpenditureSplit.objects.create: refused by the database (IntegrityError)
\* when the user does not exist or (expenditure, user) is already there.
SplitInsertOk(spl, eid, uid) ==
    /\ uid \in Users
    /\ \A i \in LiveKeys(spl) : ~(spl[i].expenditure = eid /\ spl[i].user = uid)

NewSplit(eid, uid, amt) ==
    [expenditure |-> eid, user |-> uid, amount |-> amt, is_paid |-> FALSE]

RECURSIVE InsertSplits(_, _, _, _)
\* The loop of create(): one insert per (user_id, amount) pair, each
\* committed on its own; the first refused insert ends the request.
InsertSplits(spl, eid, ids, amts) ==
    IF ids = <<>> \/ amts = <<>> THEN [splits |-> spl, ok |-> TRUE]
    ELSE IF ~SplitInsertOk(spl, eid, Head(ids))
         THEN [splits |-> spl, ok |-> FALSE]
         ELSE InsertSplits(Append(spl, NewSplit(eid, Head(ids), Head(amts))),
                           eid, Tail(ids), Tail(amts))

\* A faulty variant of SplitAmounts: in equal mode every participant is
\* charged the whole amount.
SplitAmountsUndivided(data) ==
    IF data.split_type = "equal"
    THEN [i \in 1..Len(data.split_user_ids) |-> data.amount]
    ELSE data.custom_amounts

\* The amounts create() hands to the inserts.
SplitAmounts(data) ==
    IF data.split_type = "equal"
    THEN [i \in 1..Len(data.split_user_ids) |->
             Quantize(data.amount, Len(data.split_user_ids))]
    ELSE data.custom_amounts

\* Expenditure.objects.create(**validated_data), paid_by = the caller.
NewExpenditure(u, data) ==
    [event |-> data.event, amount |-> data.amount,
     paid_by |-> u, split_type |-> data.split_type]

\* POST /expenditures/ by user u: is_valid(), then perform_create ->
\* create(): the expenditure row, then the split rows, none marked paid.
CreateExpenditure(u, data) ==
    /\ Quiet
    /\ UNCHANGED <<events, occasions>>
    /\ IF ~ExpenditureValid(data)
       THEN /\ last' = Resp("create_expenditure", 400, [user |-> u, data |-> data])
            /\ UNCHANGED <<expenditures, splits, payments, req>>
       ELSE LET eid == Len(expenditures) + 1
                r == InsertSplits(splits, eid, data.split_user_ids, SplitAmounts(data))
            IN /\ expenditures' = Append(expenditures, NewExpenditure(u, data))
               /\ splits' = r.splits
               /\ last' = Resp("create_expenditure", IF r.ok THEN 201 ELSE 500,
                               [user |-> u, data |-> data, id |-> eid])
               /\ UNCHANGED <<payments, req>>

\* get_queryset() of the expenditure views: the caller's own expenditures.
ExpenditureVisible(u, eid) ==
    /\ eid \in ExpenditureIds
    /\ expenditures[eid].paid_by = u

\* PUT /expenditures/<eid>/ by user u: get_queryset() keeps the caller's own
\* expenditures (404 otherwise); is_valid() as for a create; then the
\* ModelSerializer's update() writes the expenditure's own columns.  The
\* split rows are not touched: split_user_ids and custom_amounts are no
\* columns, and paid_by is read-only.
UpdateExpenditure(u, eid, data) ==
    /\ Quiet
    /\ UNCHANGED <<splits, payments, events, occasions, req>>
    /\ IF ~ExpenditureVisible(u, eid)
       THEN /\ last' = Resp("update_expenditure", 404, NoBody)
            /\ UNCHANGED expenditures
       ELSE IF ~ExpenditureValid(data)
       THEN /\ last' = Resp("update_expenditure", 400, NoBody)
            /\ UNCHANGED expenditures
       ELSE /\ expenditures' = [expenditures EXCEPT
                   ![eid].event = data.event,
                   ![eid].amount = data.amount,
                   ![eid].split_type = data.split_type]
            /\ last' = Resp("update_expenditure", 200, [id |-> eid])

\* is_valid() of a PATCH (partial=True): only the fields sent are checked,
\* and validate() sees only them: data.get() of a list not sent is empty,
\* data['amount'] of an amount not sent raises KeyError (no response of
\* the serializer: a 500).
PatchStatus(data) ==
    IF \/ ("event" \in data.fields /\ data.event \notin EventIds)
       \/ ("amount" \in data.fields /\ data.amount < 1)
    THEN 400
    ELSE IF "split_type" \in data.fields /\ data.split_type = "custom"
    THEN LET amts == IF "custom_amounts" \in data.fields
                     THEN data.custom_amounts ELSE <<>>
             ids == IF "split_user_ids" \in data.fields
                    THEN data.split_user_ids ELSE <<>>
         IN IF amts = <<>> \/ ids = <<>> THEN 400
            ELSE IF Len(amts) # Len(ids) THEN 400
            ELSE IF "amount" \notin data.fields THEN 500
            ELSE IF SumSeq(amts) # data.amount THEN 400
            ELSE 200
    ELSE 200

\* update() of a PATCH: the columns sent are written, the others kept.
PatchedExpenditure(row, data) ==
    [event |-> IF "event" \in data.fields THEN data.event ELSE row.event,
     amount |-> IF "amount" \in data.fields THEN data.amount ELSE row.amount,
     paid_by |-> row.paid_by,
     split_type |-> IF "split_type" \in data.fields
                    THEN data.split_type ELSE row.split_type]

\* PATCH /expenditures/<eid>/ by user u.
PatchExpenditure(u, eid, data) ==
    /\ Quiet
    /\ UNCHANGED <<splits, payments, events, occasions, req>>
    /\ IF ~ExpenditureVisible(u, eid)
       THEN /\ last' = Resp("patch_expenditure", 404, NoBody)
            /\ UNCHANGED expenditures
       ELSE IF PatchStatus(data) # 200
       THEN /\ last' = Resp("patch_expenditure", PatchStatus(data), NoBody)
            /\ UNCHANGED expenditures
       ELSE /\ expenditures' = [expenditures EXCEPT
                   ![eid] = PatchedExpenditure(expenditures[eid], data)]
            /\ last' = Resp("patch_expenditure", 200, [id |-> eid])

\* DELETE /expenditures/<eid>/ by user u: the expenditure goes, its splits
\* with it (paid or not), and the payments of those splits lose their link.
DeleteExpenditure(u, eid) ==
    /\ Quiet
    /\ UNCHANGED <<events, occasions, req>>
    /\ IF ~ExpenditureVisible(u, eid)
       THEN /\ last' = Resp("delete_expenditure", 404, NoBody)
            /\ UNCHANGED <<expenditures, splits, payments>>
       ELSE LET sids == SplitsOfExpenditures(splits, {eid})
            IN /\ payments' = Unlinked(payments, sids)
               /\ splits' = Without(splits, sids)
               /\ expenditures' = Without(expenditures, {eid})
               /\ last' = Resp("delete_expenditure", 204, [id |-> eid])

(* ---------------- EventDetailView, OccasionDetailView ----------------- *)
\* The expenditures of the events evs go with them, as in a DELETE of each.
CascadeFromEvents(evs) ==
    LET xs == ExpendituresOfEvents(expenditures, evs)
        sids == SplitsOfExpenditures(splits, xs)
    IN /\ payments' = Unlinked(payments, sids)
       /\ splits' = Without(splits, sids)
       /\ expenditures' = Without(expenditures, xs)

\* get_queryset() of the event views: the events the caller created.
EventVisible(u, e) == e \in EventIds /\ EventOwner(e) = u

\* EventSerializer.is_valid(): the occasion is null or any existing
\* occasion, whoever created it (PrimaryKeyRelatedField over all occasions).
EventValid(o) == o = None \/ o \in OccasionIds

\* POST /events/ by user u with an occasion: perform_create saves with
\* created_by = u.
CreateEvent(u, o) ==
    /\ Quiet
    /\ UNCHANGED <<expenditures, splits, payments, occasions, req>>
    /\ IF ~EventValid(o)
       THEN /\ last' = Resp("create_event", 400, NoBody)
            /\ UNCHANGED events
       ELSE /\ events' = Append(events, [occasion |-> o, created_by |-> u])
            /\ last' = Resp("create_event", 201, [id |-> Len(events) + 1])

\* DELETE /events/<e>/ by user u.
DeleteEvent(u, e) ==
    /\ Quiet
    /\ UNCHANGED <<occasions, req>>
    /\ IF ~EventVisible(u, e)
       THEN /\ last' = Resp("delete_event", 404, NoBody)
            /\ UNCHANGED <<expenditures, splits, payments, events>>
       ELSE /\ CascadeFromEvents({e})
            /\ events' = [events EXCEPT ![e] = Deleted]
            /\ last' = Resp("delete_event", 204, [id |-> e])

\* PATCH /events/<e>/ by user u with an occasion: any existing occasion, or
\* null (PrimaryKeyRelatedField over Occasion.objects.all(), allow_null).
UpdateEvent(u, e, o) ==
    /\ Quiet
    /\ UNCHANGED <<expenditures, splits, payments, occasions, req>>
    /\ IF ~EventVisible(u, e)
       THEN /\ last' = Resp("update_event", 404, NoBody)
            /\ UNCHANGED events
       ELSE IF ~EventValid(o)
       THEN /\ last' = Resp("update_event", 400, NoBody)
            /\ UNCHANGED events
       ELSE /\ events' = [events EXCEPT ![e].occasion = o]
            /\ last' = Resp("update_event", 200, [id |-> e])

\* get_queryset() of the occasion views and of the summary.
OccasionVisible(u, o) == o \in OccasionIds /\ OccasionOwner(o) = u

\* POST /occasions/ by user u: perform_create saves with created_by = u.
CreateOccasion(u) ==
    /\ Quiet
    /\ UNCHANGED <<expenditures, splits, payments, events, req>>
    /\ occasions' = Append(occasions, [created_by |-> u])
    /\ last' = Resp("create_occasion", 201, [id |-> Len(occasions) + 1])

\* DELETE /occasions/<o>/ by user u: Event.occasion is CASCADE.
DeleteOccasion(u, o) ==
    /\ Quiet
    /\ UNCHANGED req
    /\ IF ~OccasionVisible(u, o)
       THEN /\ last' = Resp("delete_occasion", 404, NoBody)
            /\ UNCHANGED <<expenditures, splits, payments, events, occasions>>
       ELSE LET evs == {e \in EventIds : events[e].occasion = o}
            IN /\ CascadeFromEvents(evs)
               /\ events' = Without(events, evs)
               /\ occasions' = Without(occasions, {o})
               /\ last' = Resp("delete_occasion", 204, [id |-> o])

(* ------------------------- settle_expenditure_split ------------------- *)
\* A faulty variant of SplitLookup: the row is looked up by id alone.
SplitLookupById(spl, sid) == sid \in LiveKeys(spl)

\* ExpenditureSplit.objects.get(id=split_id, is_paid=False): the row, or
\* DoesNotExist.
SplitLookup(spl, sid) == sid \in LiveKeys(spl) /\ ~spl[sid].is_paid

\* A faulty variant of PaymentLinkOk: no unique index on the link.
PaymentLinkAny(pays, sid, self) == TRUE

\* The unique index of Payment.expenditure_split: an insert or update that
\* would make a second row reference split sid is refused (IntegrityError).
\* `self` is the row being updated (None for an insert).
PaymentLinkOk(pays, sid, self) ==
    sid = None \/ PaymentsOf(pays, sid) \subseteq {self}

\* The constraints a payment row meets when it is written: the unique link
\* and the foreign keys to the split and to the payee.
PaymentWriteOk(pays, spl, row, self) ==
    /\ PaymentLinkOk(pays, row.expenditure_split, self)
    /\ row.expenditure_split = None \/ row.expenditure_split \in LiveKeys(spl)
    /\ row.to_user \in Users

\* description=f"Settlement for expenditure split {split.id}"
SettlementDescription(sid) == "Settlement for expenditure split " \o ToString(sid)

\* A faulty variant of SettlementPayment: the payment carries the whole
\* expenditure's amount instead of the split's.
SettlementPaymentOfTotal(u, sid, split, exps) ==
    [from_user |-> u, to_user |-> exps[split.expenditure].paid_by,
     amount |-> exps[split.expenditure].amount,
     description |-> SettlementDescription(sid),
     status |-> "completed", expenditure_split |-> sid]

\* The payment settle creates from the split it read.
SettlementPayment(u, sid, split, exps) ==
    [from_user |-> u, to_user |-> exps[split.expenditure].paid_by,
     amount |-> split.amount, description |-> SettlementDescription(sid),
     status |-> "completed", expenditure_split |-> sid]

\* A faulty variant of MarkPaid: every split of the same expenditure is
\* marked paid.
MarkExpenditurePaid(spl, sid) ==
    [i \in 1..Len(spl) |->
        IF Live(spl[i]) /\ spl[i].expenditure = spl[sid].expenditure
        THEN [spl[i] EXCEPT !.is_paid = TRUE] ELSE spl[i]]

\* A faulty variant of MarkPaid: the save writes the flag of every row,
\* true for the settled split and false for the others.
MarkOnlyPaid(spl, sid) ==
    [i \in 1..Len(spl) |->
        IF Live(spl[i]) THEN [spl[i] EXCEPT !.is_paid = (i = sid)] ELSE spl[i]]

\* split.is_paid = True; split.save(update_fields=['is_paid', ...])
MarkPaid(spl, sid) == [spl EXCEPT ![sid].is_paid = TRUE]

\* The status settle_expenditure_split answers user u for split sid on the
\* rows spl and pays: 404 from the lookup, 403 from the ownership test, 500
\* from the insert refused by the unique index, 200 otherwise.
SettleStatus(spl, pays, u, sid) ==
    IF ~SplitLookup(spl, sid) THEN 404
    ELSE IF spl[sid].user # u THEN 403
    ELSE IF ~PaymentLinkOk(pays, sid, None) THEN 500
    ELSE 200

\* A faulty variant of settle_expenditure_split: the test that the caller
\* is the split's user is left out.
settle_by_anyone(u, sid) ==
    /\ Quiet
    /\ UNCHANGED <<expenditures, events, occasions, req>>
    /\ IF ~SplitLookup(splits, sid)
       THEN /\ last' = Resp("settle", 404, NoBody)
            /\ UNCHANGED <<splits, payments>>
       ELSE IF ~PaymentLinkOk(payments, sid, None)
       THEN /\ last' = Resp("settle", 500, NoBody)
            /\ UNCHANGED <<splits, payments>>
       ELSE /\ payments' = Append(payments,
                               SettlementPayment(u, sid, splits[sid], expenditures))
            /\ splits' = MarkPaid(splits, sid)
            /\ last' = Resp("settle", 200, [id |-> Len(payments) + 1])

\* POST /expenditure-splits/<sid>/settle/ by user u, run without another
\* request in between.
settle_expenditure_split(u, sid) ==
    /\ Quiet
    /\ UNCHANGED <<expenditures, events, occasions, req>>
    /\ IF SettleStatus(splits, payments, u, sid) # 200
       THEN /\ last' = Resp("settle", SettleStatus(splits, payments, u, sid), NoBody)
            /\ UNCHANGED <<splits, payments>>
       ELSE /\ payments' = Append(payments,
                               SettlementPayment(u, sid, splits[sid], expenditures))
            /\ splits' = MarkPaid(splits, sid)
            /\ last' = Resp("settle", 200, [id |-> Len(payments) + 1])

(* ------------------ PaymentListCreateView / DetailView ---------------- *)
\* PaymentSerializer.is_valid(): status is one of the choices, the amount is
\* at least 0.01, expenditure_split is null or the key of an existing split.
PaymentValid(data) ==
    /\ data.status \in {"pending", "completed", "cancelled"}
    /\ data.amount >= 1
    /\ data.expenditure_split \in {None} \cup SplitIds

\* serializer.save(from_user=request.user): the row of a POST.
NewPayment(u, data) ==
    [from_user |-> u, to_user |-> data.to_user_id,
     amount |-> data.amount, description |-> data.description,
     status |-> data.status,
     expenditure_split |-> data.expenditure_split]

\* A faulty variant of CreatePayment: a completed payment linked to a split
\* marks that split paid.
CreatePaymentSettling(u, data) ==
    /\ Quiet
    /\ UNCHANGED <<expenditures, events, occasions, req>>
    /\ IF ~PaymentValid(data)
       THEN /\ last' = Resp("create_payment", 400, NoBody)
            /\ UNCHANGED <<payments, splits>>
       ELSE IF ~PaymentWriteOk(payments, splits, NewPayment(u, data), None)
       THEN /\ last' = Resp("create_payment", 500, NoBody)
            /\ UNCHANGED <<payments, splits>>
       ELSE /\ payments' = Append(payments, NewPayment(u, data))
            /\ splits' = IF data.expenditure_split # None /\ data.status = "completed"
                         THEN MarkPaid(splits, data.expenditure_split)
                         ELSE splits
            /\ last' = Resp("create_payment", 201, [id |-> Len(payments) + 1])

\* POST /payments/ by user u: perform_create saves with from_user = u.
CreatePayment(u, data) ==
    /\ Quiet
    /\ UNCHANGED <<expenditures, splits, events, occasions, req>>
    /\ IF ~PaymentValid(data)
       THEN /\ last' = Resp("create_payment", 400, NoBody)
            /\ UNCHANGED payments
       ELSE IF ~PaymentWriteOk(payments, splits, NewPayment(u, data), None)
       THEN /\ last' = Resp("create_payment", 500, NoBody)
            /\ UNCHANGED payments
       ELSE /\ payments' = Append(payments, NewPayment(u, data))
            /\ last' = Resp("create_payment", 201, [id |-> Len(payments) + 1])

\* get_queryset(): the payments user u sent or received.
PaymentVisible(u, pid) ==
    /\ pid \in PaymentIds
    /\ (payments[pid].from_user = u \/ payments[pid].to_user = u)

\* is_valid() of a PATCH: the fields sent are checked as for a POST.
PaymentPatchValid(data) ==
    /\ "status" \in data.fields
         => data.status \in {"pending", "completed", "cancelled"}
    /\ "amount" \in data.fields => data.amount >= 1
    /\ "expenditure_split" \in data.fields
         => data.expenditure_split \in {None} \cup SplitIds

\* update(): the instance read by get_object() with the fields sent set;
\* save() then writes every column of it.  from_user is read-only.
PatchedPayment(row, data) ==
    [from_user |-> row.from_user,
     to_user |-> IF "to_user_id" \in data.fields
                 THEN data.to_user_id ELSE row.to_user,
     amount |-> IF "amount" \in data.fields THEN data.amount ELSE row.amount,
     description |-> IF "description" \in data.fields
                     THEN data.description ELSE row.description,
     status |-> IF "status" \in data.fields THEN data.status ELSE row.status,
     expenditure_split |-> IF "expenditure_split" \in data.fields
                           THEN data.expenditure_split
                           ELSE row.expenditure_split]

\* PATCH /payments/<pid>/ by user u.
UpdatePayment(u, pid, data) ==
    /\ Quiet
    /\ UNCHANGED <<expenditures, splits, events, occasions, req>>
    /\ IF ~PaymentVisible(u, pid)
       THEN /\ last' = Resp("update_payment", 404, NoBody)
            /\ UNCHANGED payments
       ELSE IF ~PaymentPatchValid(data)
       THEN /\ last' = Resp("update_payment", 400, NoBody)
            /\ UNCHANGED payments
       ELSE IF ~PaymentWriteOk(payments, splits,
                               PatchedPayment(payments[pid], data), pid)
       THEN /\ last' = Resp("update_payment", 500, NoBody)
            /\ UNCHANGED payments
       ELSE /\ payments' = [payments EXCEPT
                   ![pid] = PatchedPayment(payments[pid], data)]
            /\ last' = Resp("update_payment", 200, [id |-> pid])

\* DELETE /payments/<pid>/ by user u.
DeletePayment(u, pid) ==
    /\ Quiet
    /\ UNCHANGED <<expenditures, splits, events, occasions, req>>
    /\ IF ~PaymentVisible(u, pid)
       THEN /\ last' = Resp("delete_payment", 404, NoBody)
            /\ UNCHANGED payments
       ELSE /\ payments' = [payments EXCEPT ![pid] = Deleted]
            /\ last' = Resp("delete_payment", 204, NoBody)

(* --------------------- the handlers, statement by statement ----------- *)
\* The same handlers on worker w, one database statement per step, so that
\* other workers' statements may fall in between.  req[w] holds the
\* handler's local variables; a finished request keeps its status there.
Callable(w) == req[w].pc \in {"idle", "done"}

\* A finished request of another handler than settle.
Done(op, u, status) ==
    [pc |-> "done", op |-> op, user |-> u, split |-> None, status |-> status]

\* A finished settle request.
DoneReq(u, sid, status) ==
    [pc |-> "done", op |-> "settle", user |-> u, split |-> sid, status |-> status]

\* settle: the get(): 404 and 403 are answered at once; otherwise the
\* handler holds the row it read (with the payer, by select_related).
SettleRead(w, u, sid) ==
    /\ Callable(w)
    /\ UNCHANGED <<expenditures, splits, payments, events, occasions, last>>
    /\ req' = [req EXCEPT ![w] =
          IF ~SplitLookup(splits, sid) THEN DoneReq(u, sid, 404)
          ELSE IF splits[sid].user # u THEN DoneReq(u, sid, 403)
          ELSE [pc |-> "insert", user |-> u, split |-> sid,
                payment |-> SettlementPayment(u, sid, splits[sid], expenditures)]]

\* settle: Payment.objects.create(...): an IntegrityError (the link is
\* taken, or the split is gone) ends the request (500).
SettleInsert(w) ==
    /\ req[w].pc = "insert"
    /\ UNCHANGED <<expenditures, splits, events, occasions, last>>
    /\ IF ~PaymentWriteOk(payments, splits, req[w].payment, None)
       THEN /\ req' = [req EXCEPT ![w] = DoneReq(req[w].user, req[w].split, 500)]
            /\ UNCHANGED payments
       ELSE /\ payments' = Append(payments, req[w].payment)
            /\ req' = [req EXCEPT ![w] =
                  [pc |-> "save", user |-> req[w].user, split |-> req[w].split]]

\* settle: split.save(update_fields=[...]), then the 200 response; a save
\* that finds no row to update raises DatabaseError (500).
SettleSave(w) ==
    /\ req[w].pc = "save"
    /\ UNCHANGED <<expenditures, payments, events, occasions, last>>
    /\ IF req[w].split \notin SplitIds
       THEN /\ req' = [req EXCEPT ![w] = DoneReq(req[w].user, req[w].split, 500)]
            /\ UNCHANGED splits
       ELSE /\ splits' = MarkPaid(splits, req[w].split)
            /\ req' = [req EXCEPT ![w] = DoneReq(req[w].user, req[w].split, 200)]

\* POST /expenditures/: is_valid() reads the event.
CreateBegin(w, u, data) ==
    /\ Callable(w)
    /\ UNCHANGED <<expenditures, splits, payments, events, occasions, last>>
    /\ req' = [req EXCEPT ![w] =
          IF ~ExpenditureValid(data) THEN Done("create_expenditure", u, 400)
          ELSE [pc |-> "expenditure", user |-> u, data |-> data]]

\* What the loop of create() does next: another insert, or the response.
CreateLoop(u, eid, ids, amts) ==
    IF ids = <<>> \/ amts = <<>>
    THEN [pc |-> "done", op |-> "create_expenditure", user |-> u,
          split |-> None, status |-> 201, id |-> eid]
    ELSE [pc |-> "split", user |-> u, id |-> eid, ids |-> ids, amts |-> amts]

\* POST /expenditures/: Expenditure.objects.create(...); an event deleted
\* since is_valid() fails the foreign key (500).
CreateInsertExpenditure(w) ==
    /\ req[w].pc = "expenditure"
    /\ UNCHANGED <<splits, payments, events, occasions, last>>
    /\ IF req[w].data.event \notin EventIds
       THEN /\ req' = [req EXCEPT ![w] = Done("create_expenditure", req[w].user, 500)]
            /\ UNCHANGED expenditures
       ELSE /\ expenditures' = Append(expenditures,
                                      NewExpenditure(req[w].user, req[w].data))
            /\ req' = [req EXCEPT ![w] =
                  CreateLoop(req[w].user, Len(expenditures) + 1,
                             req[w].data.split_user_ids, SplitAmounts(req[w].data))]

\* POST /expenditures/: one ExpenditureSplit.objects.create(...) of the loop.
CreateInsertSplit(w) ==
    /\ req[w].pc = "split"
    /\ UNCHANGED <<expenditures, payments, events, occasions, last>>
    /\ IF ~(/\ req[w].id \in ExpenditureIds
            /\ SplitInsertOk(splits, req[w].id, Head(req[w].ids)))
       THEN /\ req' = [req EXCEPT ![w] = Done("create_expenditure", req[w].user, 500)]
            /\ UNCHANGED splits
       ELSE /\ splits' = Append(splits,
                   NewSplit(req[w].id, Head(req[w].ids), Head(req[w].amts)))
            /\ req' = [req EXCEPT ![w] =
                  CreateLoop(req[w].user, req[w].id,
                             Tail(req[w].ids), Tail(req[w].amts))]

\* POST /payments/: is_valid() reads the split the request names.
PaymentCreateBegin(w, u, data) ==
    /\ Callable(w)
    /\ UNCHANGED <<expenditures, splits, payments, events, occasions, last>>
    /\ req' = [req EXCEPT ![w] =
          IF ~PaymentValid(data) THEN Done("create_payment", u, 400)
          ELSE [pc |-> "payment", user |-> u, row |-> NewPayment(u, data)]]

\* POST /payments/: the INSERT of perform_create.
PaymentCreateInsert(w) ==
    /\ req[w].pc = "payment"
    /\ UNCHANGED <<expenditures, splits, events, occasions, last>>
    /\ IF ~PaymentWriteOk(payments, splits, req[w].row, None)
       THEN /\ req' = [req EXCEPT ![w] = Done("create_payment", req[w].user, 500)]
            /\ UNCHANGED payments
       ELSE /\ payments' = Append(payments, req[w].row)
            /\ req' = [req EXCEPT ![w] = Done("create_payment", req[w].user, 201)]

\* PATCH /payments/<pid>/: get_object() reads the row.
PaymentUpdateRead(w, u, pid, data) ==
    /\ Callable(w)
    /\ UNCHANGED <<expenditures, splits, payments, events, occasions, last>>
    /\ req' = [req EXCEPT ![w] =
          IF ~PaymentVisible(u, pid) THEN Done("update_payment", u, 404)
          ELSE [pc |-> "validate", user |-> u, id |-> pid, data |-> data,
                instance |-> payments[pid]]]

\* PATCH /payments/<pid>/: is_valid() reads the split the request names.
PaymentUpdateValidate(w) ==
    /\ req[w].pc = "validate"
    /\ UNCHANGED <<expenditures, splits, payments, events, occasions, last>>
    /\ req' = [req EXCEPT ![w] =
          IF ~PaymentPatchValid(req[w].data)
          THEN Done("update_payment", req[w].user, 400)
          ELSE [pc |-> "write", user |-> req[w].user, id |-> req[w].id,
                row |-> PatchedPayment(req[w].instance, req[w].data)]]

\* PATCH /payments/<pid>/: save() writes every column of the instance as
\* read and patched, by UPDATE ... WHERE id = pid.  An UPDATE that finds
\* no row (the payment has been deleted since get_object()) checks
\* nothing and leaves save() to insert the row.
PaymentUpdateWrite(w) ==
    /\ req[w].pc = "write"
    /\ UNCHANGED <<expenditures, splits, events, occasions, last>>
    /\ IF req[w].id \notin PaymentIds
       THEN /\ req' = [req EXCEPT ![w] =
                  [pc |-> "reinsert", user |-> req[w].user, id |-> req[w].id,
                   row |-> req[w].row]]
            /\ UNCHANGED payments
       ELSE IF ~PaymentWriteOk(payments, splits, req[w].row, req[w].id)
       THEN /\ req' = [req EXCEPT ![w] = Done("update_payment", req[w].user, 500)]
            /\ UNCHANGED payments
       ELSE /\ payments' = [payments EXCEPT ![req[w].id] = req[w].row]
            /\ req' = [req EXCEPT ![w] = Done("update_payment", req[w].user, 200)]

\* PATCH /payments/<pid>/: the INSERT of save() under the key pid, after
\* the UPDATE found no row; a row inserted under that key since fails it
\* (IntegrityError on the primary key, 500).
PaymentUpdateInsert(w) ==
    /\ req[w].pc = "reinsert"
    /\ UNCHANGED <<expenditures, splits, events, occasions, last>>
    /\ IF \/ req[w].id \in PaymentIds
          \/ ~PaymentWriteOk(payments, splits, req[w].row, None)
       THEN /\ req' = [req EXCEPT ![w] = Done("update_payment", req[w].user, 500)]
            /\ UNCHANGED payments
       ELSE /\ payments' = [payments EXCEPT ![req[w].id] = req[w].row]
            /\ req' = [req EXCEPT ![w] = Done("update_payment", req[w].user, 200)]

\* DELETE /payments/<pid>/: get_object().
PaymentDeleteRead(w, u, pid) ==
    /\ Callable(w)
    /\ UNCHANGED <<expenditures, splits, payments, events, occasions, last>>
    /\ req' = [req EXCEPT ![w] =
          IF ~PaymentVisible(u, pid) THEN Done("delete_payment", u, 404)
          ELSE [pc |-> "unpay", user |-> u, id |-> pid]]

\* DELETE /payments/<pid>/: delete(); no row refers to a payment, so it is
\* one DELETE ... WHERE id = pid, which may find the row gone already.
PaymentDeleteWrite(w) ==
    /\ req[w].pc = "unpay"
    /\ UNCHANGED <<expenditures, splits, events, occasions, last>>
    /\ payments' = [payments EXCEPT ![req[w].id] = Deleted]
    /\ req' = [req EXCEPT ![w] = Done("delete_payment", req[w].user, 204)]

\* DELETE /expenditures/<eid>/: get_object().
DeleteRead(w, u, eid) ==
    /\ Callable(w)
    /\ UNCHANGED <<expenditures, splits, payments, events, occasions, last>>
    /\ req' = [req EXCEPT ![w] =
          IF ~ExpenditureVisible(u, eid) THEN Done("delete_expenditure", u, 404)
          ELSE [pc |-> "collect", user |-> u, id |-> eid]]

\* DELETE /expenditures/<eid>/: delete() collects the splits to cascade to.
DeleteCollect(w) ==
    /\ req[w].pc = "collect"
    /\ UNCHANGED <<expenditures, splits, payments, events, occasions, last>>
    /\ req' = [req EXCEPT ![w] =
          [pc |-> "cascade", user |-> req[w].user, id |-> req[w].id,
           sids |-> SplitsOfExpenditures(splits, {req[w].id})]]

\* DELETE /expenditures/<eid>/: the transaction of delete(): the payments
\* of the collected splits lose their link, the collected splits and the
\* expenditure are deleted; a split inserted since the collection still
\* refers to the expenditure and fails the transaction (500, rolled back).
DeleteCascade(w) ==
    /\ req[w].pc = "cascade"
    /\ UNCHANGED <<events, occasions, last>>
    /\ IF ~(SplitsOfExpenditures(splits, {req[w].id}) \subseteq req[w].sids)
       THEN /\ req' = [req EXCEPT ![w] = Done("delete_expenditure", req[w].user, 500)]
            /\ UNCHANGED <<expenditures, splits, payments>>
       ELSE /\ payments' = Unlinked(payments, req[w].sids)
            /\ splits' = Without(splits, req[w].sids)
            /\ expenditures' = Without(expenditures, {req[w].id})
            /\ req' = [req EXCEPT ![w] = Done("delete_expenditure", req[w].user, 204)]

\* The clients have read their responses; the workers wait for requests.
Collect ==
    /\ \A w \in Workers : Callable(w)
    /\ \E w \in Workers : req[w].pc = "done"
    /\ req' = [w \in Workers |-> IdleReq]
    /\ UNCHANGED <<expenditures, splits, payments, events, occasions, last>>

(* ------------------------ user_balance, occasion_summary -------------- *)
PaidBy(i) == expenditures[splits[i].expenditure].paid_by
EventOf(i) == expenditures[splits[i].expenditure].event

\* A faulty variant of OwedRows: the splits of the user's own expenditures
\* are not excluded.
OwedRowsWithOwn(u, evs) ==
    {i \in SplitIds : splits[i].user = u /\ ~splits[i].is_paid /\ EventOf(i) \in evs}

\* filter(user=u, is_paid=False).exclude(expenditure__paid_by=u), with
\* expenditure__event__in=evs when a scope is given (evs = Events otherwise).
OwedRows(u, evs) ==
    {i \in SplitIds : splits[i].user = u /\ ~splits[i].is_paid /\ EventOf(i) \in evs}
      \ {i \in SplitIds : PaidBy(i) = u}

\* A faulty variant of OwesRows: the payer's own splits are not excluded.
OwesRowsWithOwn(u, evs) ==
    {i \in SplitIds : PaidBy(i) = u /\ ~splits[i].is_paid /\ EventOf(i) \in evs}

\* filter(expenditure__paid_by=u, is_paid=False).exclude(user=u)
OwesRows(u, evs) ==
    {i \in SplitIds : PaidBy(i) = u /\ ~splits[i].is_paid /\ EventOf(i) \in evs}
      \ {i \in SplitIds : splits[i].user = u}

\* The three figures of a UserBalanceSerializer entry.
BalanceOf(u, evs) ==
    LET total_owed == Aggregate(splits, OwedRows(u, evs))
        total_owes == Aggregate(splits, OwesRows(u, evs))
    IN [user |-> u, balance |-> total_owes - total_owed,
        total_owed |-> total_owed, total_owes |-> total_owes]

\* GET /user/balance/ by user u.
user_balance(u) ==
    /\ Quiet
    /\ last' = Resp("balance", 200, BalanceOf(u, Events))
    /\ UNCHANGED <<expenditures, splits, payments, events, occasions, req>>

\* The splits marked paid.
PaidSplits == {i \in SplitIds : splits[i].is_paid}

\* user_balance on worker w, one aggregate query per step, so that other
\* workers' statements may fall between the two.  Beside the handler's
\* locals, req[w] keeps which splits existed and which were paid at the
\* first query and at the second: the ledger states the request spanned.
BalanceReadOwed(w, u) ==
    /\ Callable(w)
    /\ UNCHANGED <<expenditures, splits, payments, events, occasions, last>>
    /\ req' = [req EXCEPT ![w] =
          [pc |-> "owes", user |-> u,
           total_owed |-> Aggregate(splits, OwedRows(u, Events)),
           rows_from |-> Len(splits), paid_from |-> PaidSplits]]

\* The second aggregate, balance = total_owes - total_owed, the response.
BalanceReadOwes(w) ==
    /\ req[w].pc = "owes"
    /\ UNCHANGED <<expenditures, splits, payments, events, occasions, last>>
    /\ LET total_owes == Aggregate(splits, OwesRows(req[w].user, Events))
       IN req' = [req EXCEPT ![w] =
             [pc |-> "done", op |-> "balance", user |-> req[w].user,
              split |-> None, status |-> 200,
              body |-> [user |-> req[w].user,
                        balance |-> total_owes - req[w].total_owed,
                        total_owed |-> req[w].total_owed,
                        total_owes |-> total_owes],
              rows_from |-> req[w].rows_from, paid_from |-> req[w].paid_from,
              rows_to |-> Len(splits), paid_to |-> PaidSplits]]

\* A faulty variant of OccasionEvents: every event, whatever its occasion.
OccasionEventsAll(o) == EventIds

\* occasion.events.all()
OccasionEvents(o) == {e \in EventIds : events[e].occasion = o}

\* A faulty variant of InvolvedUsers: the payers are not added.
InvolvedDebtors(evs) ==
    {splits[i].user : i \in {i \in SplitIds : EventOf(i) \in evs}}

\* The user_ids set: the payer of every expenditure of the events and the
\* user of every split of those expenditures.
InvolvedUsers(evs) ==
    {expenditures[x].paid_by : x \in ExpendituresOfEvents(expenditures, evs)}
    \cup {splits[i].user : i \in {i \in SplitIds : EventOf(i) \in evs}}

\* The loop over User.objects.filter(id__in=user_ids), in key order: one
\* entry per user of the set.
BalanceList(us, evs) ==
    LET entry == [u \in us |-> BalanceOf(u, evs)]
        keys == SelectSeq([u \in 1..Cardinality(Users) |-> u], LAMBDA u : u \in us)
    IN [k \in 1..Len(keys) |-> entry[keys[k]]]

Summary(o) ==
    LET evs == OccasionEvents(o)
    IN [occasion |-> o,
        total_expenditures |->
            Aggregate(expenditures, ExpendituresOfEvents(expenditures, evs)),
        total_events |-> Cardinality(evs),
        user_balances |-> BalanceList(InvolvedUsers(evs), evs)]

\* GET /occasions/<o>/summary/ by user u.
occasion_summary(u, o) ==
    /\ Quiet
    /\ UNCHANGED <<expenditures, splits, payments, events, occasions, req>>
    /\ IF ~OccasionVisible(u, o)
       THEN last' = Resp("summary", 404, NoBody)
       ELSE last' = Resp("summary", 200, Summary(o))

(* --------------------------- request domains -------------------------- *)
UserLists == UNION {[1..n -> Users] : n \in 0..MaxSplitUsers}
AmountLists == UNION {[1..n -> 0..MaxAmount] : n \in 0..MaxSplitUsers}

\* Every create-expenditure request within the bounds.
ExpenditureRequests ==
    {[event |-> e, amount |-> a, split_type |-> "equal",
      split_user_ids |-> ids, custom_amounts |-> <<>>] :
        e \in Events, a \in 1..MaxAmount, ids \in UserLists}
    \cup
    {[event |-> e, amount |-> a, split_type |-> "custom",
      split_user_ids |-> ids, custom_amounts |-> cs] :
        e \in Events, a \in 1..MaxAmount, ids \in UserLists, cs \in AmountLists}

\* The expenditures of the settlement scenarios: 3 cents in event 1, split
\* 1 + 2 between users 1 and 2 or charged to user 1 alone.
SettleRequests ==
    {[event |-> 1, amount |-> 3, split_type |-> "custom",
      split_user_ids |-> <<1, 2>>, custom_amounts |-> <<1, 2>>],
     [event |-> 1, amount |-> 3, split_type |-> "custom",
      split_user_ids |-> <<1>>, custom_amounts |-> <<3>>]}

\* The manual payments drawn: payee 2, one cent, the tests' description,
\* pending (the default) or completed, linked to no split or to split 1
\* (which is no split's key while the ledger is empty).
PaymentRequests ==
    {[to_user_id |-> t, amount |-> 1, description |-> "Test payment",
      status |-> s, expenditure_split |-> x] :
        t \in {2}, s \in {"pending", "completed"}, x \in {None, 1}}

\* The expenditures of the balance scenarios: 3 cents in event 1 (occasion
\* 1) split 1 + 2 between users 1 and 2, and 4 cents in event 3 (no
\* occasion) charged to user 3.
BalanceRequests ==
    {[event |-> 1, amount |-> 3, split_type |-> "custom",
      split_user_ids |-> <<1, 2>>, custom_amounts |-> <<1, 2>>],
     [event |-> 3, amount |-> 4, split_type |-> "equal",
      split_user_ids |-> <<3>>, custom_amounts |-> <<>>]}

\* Who pays the expenditure and who sends the manual payments in the
\* settlement scenarios: the payer is user 1 (a participant) or user 2, the
\* sender user 1 or user 3 (who is no party to the expenditure).  In the
\* balance scenarios the payer is user 2 or user 3, each a participant of
\* one expenditure and a stranger to the other.
SettlePayers == {1, 2}
BalancePayers == {2, 3}
PaymentSenders == {1, 3}

\* The update of the settlement scenarios' expenditure: a new total of 2
\* cents, custom mode, charged to user 1, or the same with amounts that do
\* not add up.
UpdateRequests ==
    {[event |-> 1, amount |-> 2, split_type |-> "custom",
      split_user_ids |-> <<1>>, custom_amounts |-> cs] : cs \in {<<2>>, <<1>>}}

\* The partial updates of that expenditure: a new total alone, the custom
\* mode alone, and the custom mode with its lists but without the total.
PatchRequests ==
    {[fields |-> fs, event |-> 1, amount |-> 2, split_type |-> "custom",
      split_user_ids |-> <<1>>, custom_amounts |-> <<3>>] :
        fs \in {{"amount"}, {"split_type"},
                {"split_type", "split_user_ids", "custom_amounts"}}}

\* The partial updates of a payment: a status and a link, or another
\* amount, payee and description.
PaymentPatches ==
    {[fields |-> {"status", "expenditure_split"}, status |-> s,
      expenditure_split |-> x, amount |-> 2, to_user_id |-> 3,
      description |-> "changed"] :
        s \in {"pending", "completed"}, x \in {None, 1}}
    \cup
    {[fields |-> {"amount", "to_user_id", "description"}, status |-> "pending",
      expenditure_split |-> None, amount |-> 2, to_user_id |-> 3,
      description |-> "changed"]}

\* The manual payments raced against settle calls and deletions: they name
\* split 1.
RacePayments == {data \in PaymentRequests : data.expenditure_split = 1}

\* The partial updates raced against settle calls: the payment is
\* unlinked, or linked to split 1.
RacePatches ==
    {[fields |-> {"status", "expenditure_split"}, status |-> "completed",
      expenditure_split |-> x, amount |-> 2, to_user_id |-> 3,
      description |-> "changed"] : x \in {None, 1}}

\* The partial update raced against another of the same payment: the
\* one that unlinks it.
UnlinkPatch == CHOOSE data \in RacePatches : data.expenditure_split = None

\* The workers that serve settle calls when requests run together, and
\* those that serve the updates of a payment.
SettleWorkers == {1, 2}
PatchWorkers == {1, 3}

(* ------------------------------- Init --------------------------------- *)
\* User 1 created occasion 1, user 2 occasion 2.
InitialOccasions == <<[created_by |-> 1], [created_by |-> 2]>>

\* Events 1 and 2, created by user 1, belong to occasion 1; event 3,
\* created by user 3, belongs to no occasion; occasion 2 has no events.
InitialEvents ==
    <<[occasion |-> 1, created_by |-> 1], [occasion |-> 1, created_by |-> 1],
      [occasion |-> None, created_by |-> 3]>>

Init ==
    /\ expenditures = <<>>
    /\ splits = <<>>
    /\ payments = <<>>
    /\ events = InitialEvents
    /\ occasions = InitialOccasions
    /\ last = Resp("none", 0, NoBody)
    /\ req = [w \in Workers |-> IdleReq]

\* Settlement and payments around the splits of one expenditure, each
\* request run to its end before the next.  The first MaxPayments
\* payments are patched and deleted; the amount, payee and description
\* are patched on the first payment only.
Next ==
    \/ /\ expenditures = <<>>
       /\ \E u \in SettlePayers, data \in SettleRequests : CreateExpenditure(u, data)
    \/ \E u \in SettlePayers, data \in UpdateRequests : UpdateExpenditure(u, 1, data)
    \/ \E u \in SettlePayers, data \in PatchRequests : PatchExpenditure(u, 1, data)
    \/ \E u \in SettlePayers : DeleteExpenditure(u, 1)
    \/ \E u \in Users, sid \in 1..2 : settle_expenditure_split(u, sid)
    \/ /\ Len(payments) < MaxPayments
       /\ \E u \in PaymentSenders, data \in PaymentRequests : CreatePayment(u, data)
    \/ \E u \in Users, pid \in 1..Len(payments), data \in PaymentPatches :
           /\ pid <= MaxPayments
           /\ "amount" \in data.fields => pid = 1
           /\ UpdatePayment(u, pid, data)
    \/ \E u \in Users, pid \in 1..Len(payments) :
           pid <= MaxPayments /\ DeletePayment(u, pid)

Spec == Init /\ [][Next]_vars

\* One create-expenditure request, the first on the ledger, over every
\* request within the bounds.
NextCreate ==
    /\ last.op = "none"
    /\ \E u \in Users, data \in ExpenditureRequests : CreateExpenditure(u, data)

SpecCreate == Init /\ [][NextCreate]_vars

\* The moves of an event drawn: event 1 to occasion 2 (another user's),
\* event 3 into occasion 1 or into occasion 3 (its owner's own, once
\* created).
EventMoves == {<<1, 2>>, <<3, 1>>, <<3, 3>>}

\* Who creates an occasion and who an event in the balance scenarios, and
\* the occasion the event is created in: none, user 2's own occasion 2, or
\* occasion 3 (user 3's, once created).
OccasionCreators == {3}
EventCreators == {2}
EventOccasions == {None, 2, 3}

\* The expenditure in the event a scenario creates: 3 cents paid by user 1
\* and charged to user 3.
NewEventPayer == 1
NewEventRequest ==
    [event |-> Len(InitialEvents) + 1, amount |-> 3, split_type |-> "equal",
     split_user_ids |-> <<3>>, custom_amounts |-> <<>>]

\* The create requests a scenario has made: its occasions, events and
\* expenditures.
Created ==
    (Len(occasions) - Len(InitialOccasions)) + (Len(events) - Len(InitialEvents))
      + Len(expenditures)

\* Nothing has been deleted or moved: the first occasions and events are
\* as Init leaves them, every row created is still there.
Undisturbed ==
    /\ SubSeq(events, 1, Len(InitialEvents)) = InitialEvents
    /\ SubSeq(occasions, 1, Len(InitialOccasions)) = InitialOccasions
    /\ EventIds = Events /\ OccasionIds = Occasions
    /\ ExpenditureIds = 1..Len(expenditures)

\* The scenario has not reached its queries, nor its deletion or move.
Writing == last.op \notin {"balance", "summary"} /\ Undisturbed

\* The ledger under the queries.  A scenario makes at most MaxExpenditures
\* create requests: first an occasion and an event, at most one of each,
\* then expenditures in and out of occasion 1 and in the new event; it has
\* outstanding splits settled by their debtors; then, after at most
\* MaxPayments settlements, comes one deletion or move by the owner (an
\* expenditure, event 1 or 2, or occasion 1 deleted, an event moved); then
\* one query.  The queries write nothing, so a scenario ends with its
\* query.
NextBalance ==
    \/ /\ Writing /\ Created < MaxExpenditures
       /\ expenditures = <<>>
       /\ Len(occasions) = Len(InitialOccasions) /\ Len(events) = Len(InitialEvents)
       /\ \E u \in OccasionCreators : CreateOccasion(u)
    \/ /\ Writing /\ Created < MaxExpenditures
       /\ expenditures = <<>>
       /\ Len(events) = Len(InitialEvents)
       /\ \E u \in EventCreators, o \in EventOccasions : CreateEvent(u, o)
    \/ /\ Writing /\ Created < MaxExpenditures
       /\ \/ \E u \in BalancePayers, data \in BalanceRequests : CreateExpenditure(u, data)
          \/ CreateExpenditure(NewEventPayer, NewEventRequest)
    \/ /\ Writing
       /\ \E sid \in SplitIds :
             ~splits[sid].is_paid /\ settle_expenditure_split(splits[sid].user, sid)
    \/ /\ Writing /\ Len(payments) <= MaxPayments
       /\ \E eid \in ExpenditureIds : DeleteExpenditure(expenditures[eid].paid_by, eid)
    \/ /\ Writing /\ Len(payments) <= MaxPayments
       /\ \E e \in {1, 2} : DeleteEvent(EventOwner(e), e)
    \/ /\ Writing /\ Len(payments) <= MaxPayments
       /\ \E m \in EventMoves : UpdateEvent(EventOwner(m[1]), m[1], m[2])
    \/ /\ Writing /\ Len(payments) <= MaxPayments
       /\ DeleteOccasion(OccasionOwner(1), 1)
    \/ /\ last.op \notin {"balance", "summary"}
       /\ \E u \in Users : user_balance(u)
    \/ /\ last.op \notin {"balance", "summary"}
       /\ \E u \in Users, o \in Occasions : occasion_summary(u, o)

SpecBalance == Init /\ [][NextBalance]_vars

\* The ledgers of the settlement scenarios, as a create request leaves them.
InitRace ==
    /\ \E u \in SettlePayers, data \in SettleRequests :
          /\ expenditures = <<NewExpenditure(u, data)>>
          /\ splits = InsertSplits(<<>>, 1, data.split_user_ids,
                                   SplitAmounts(data)).splits
    /\ payments = <<>>
    /\ events = InitialEvents
    /\ occasions = InitialOccasions
    /\ last = Resp("none", 0, NoBody)
    /\ req = [w \in Workers |-> IdleReq]

\* Workers 1 and 2 are not part-way through a settle call or the deletion
\* of an expenditure; worker 1 is not part-way through the update of a
\* payment, nor worker 2 through the deletion of one.
NoLedgerRequest ==
    \A w \in SettleWorkers : req[w].pc \notin {"insert", "save", "collect", "cascade"}
NoPaymentRequest ==
    \A w \in SettleWorkers : req[w].pc \notin {"validate", "write", "reinsert", "unpay"}

\* Settle requests by the debtor on workers 1 and 2, the deletion of the
\* expenditure by its payer and of a payment by its sender on worker 2, a
\* manual payment on worker 3, the update of a payment by its sender on
\* workers 1 and 3, the statements of the three workers' requests
\* interleaved.  Workers 1 and 2 serve either their settle calls and
\* expenditure deletions together, or their payment updates and
\* deletions; worker 3's requests run beside both.  The first MaxPayments
\* payments are updated and deleted.
NextRace ==
    \/ /\ NoPaymentRequest
       /\ \E w \in SettleWorkers, sid \in 1..Len(splits) :
             Live(splits[sid]) /\ SettleRead(w, splits[sid].user, sid)
    \/ \E w \in SettleWorkers : SettleInsert(w)
    \/ \E w \in SettleWorkers : SettleSave(w)
    \/ /\ Len(payments) < MaxPayments
       /\ \E data \in RacePayments : PaymentCreateBegin(3, 3, data)
    \/ PaymentCreateInsert(3)
    \/ \E pid \in PaymentIds, data \in RacePatches :
          pid <= MaxPayments /\ PaymentUpdateRead(3, payments[pid].from_user, pid, data)
    \/ /\ NoLedgerRequest
       /\ \E pid \in PaymentIds :
             pid <= MaxPayments /\ PaymentUpdateRead(1, payments[pid].from_user, pid, UnlinkPatch)
    \/ \E w \in PatchWorkers : PaymentUpdateValidate(w)
    \/ \E w \in PatchWorkers : PaymentUpdateWrite(w)
    \/ \E w \in PatchWorkers : PaymentUpdateInsert(w)
    \/ /\ NoLedgerRequest
       /\ \E pid \in PaymentIds :
             pid <= MaxPayments /\ PaymentDeleteRead(2, payments[pid].from_user, pid)
    \/ PaymentDeleteWrite(2)
    \/ /\ NoPaymentRequest
       /\ \E eid \in ExpenditureIds : DeleteRead(2, expenditures[eid].paid_by, eid)
    \/ DeleteCollect(2)
    \/ DeleteCascade(2)
    \/ Collect

SpecRace == InitRace /\ [][NextRace]_vars

\* A balance request on worker 1 while worker 2 serves settle requests,
\* each by the split's debtor, and worker 3 create requests, over the
\* ledger of the balance scenarios.
NextSnapshot ==
    \/ /\ Len(expenditures) < MaxExpenditures
       /\ \E u \in BalancePayers, data \in BalanceRequests : CreateBegin(3, u, data)
    \/ CreateInsertExpenditure(3)
    \/ CreateInsertSplit(3)
    \/ \E u \in Users : BalanceReadOwed(1, u)
    \/ BalanceReadOwes(1)
    \/ \E sid \in SplitIds : SettleRead(2, splits[sid].user, sid)
    \/ SettleInsert(2)
    \/ SettleSave(2)
    \/ Collect

SpecSnapshot == Init /\ [][NextSnapshot]_vars

(* ============================== claims ================================ *)
\* What the claims say of the ledger, written from the rows themselves.
Outstanding(sid) == sid \in SplitIds /\ ~splits[sid].is_paid
Debtor(sid) == splits[sid].user
Payer(sid) == expenditures[splits[sid].expenditure].paid_by
LinkedPayments(sid) == {p \in PaymentIds : payments[p].expenditure_split = sid}
AmountWhere(Cond(_)) ==
    SumSeq([i \in 1..Len(splits) |->
               IF i \in SplitIds /\ Cond(i) THEN splits[i].amount ELSE 0])

\* C1: for any outstanding split, when its debtor calls settle twice in
\* sequence, the first call succeeds (a completed Payment of the split's
\* amount is returned and is_paid becomes true) and the second call, made
\* right after, fails with NotFound and leaves exactly one Payment
\* referencing the split.
C1_SettleTwice ==
    [][\A u \in Users, sid \in 1..2 :
         /\ (Outstanding(sid) /\ Debtor(sid) = u /\ settle_expenditure_split(u, sid))
              => /\ last'.op = "settle" /\ last'.status = 200
                 /\ payments'[last'.body.id].status = "completed"
                 /\ payments'[last'.body.id].amount = splits[sid].amount
                 /\ splits'[sid].is_paid
         /\ (/\ last.op = "settle" /\ last.status = 200
             /\ payments[last.body.id].from_user = u
             /\ payments[last.body.id].expenditure_split = sid
             /\ settle_expenditure_split(u, sid))
              => /\ last'.op = "settle" /\ last'.status = 404
                 /\ Cardinality({p \in 1..Len(payments') :
                        /\ payments'[p] # Deleted
                        /\ payments'[p].expenditure_split = sid}) = 1
      ]_vars

\* C2: after two concurrent settle calls by the debtor on the same
\* outstanding split have both ended, whatever the interleaving of their
\* statements, exactly one Payment references the split and the split has
\* is_paid = true.
C2_RaceOnePayment ==
    \A sid \in SplitIds :
        (/\ \A w \in SettleWorkers : /\ req[w].pc = "done"
                                     /\ req[w].split = sid
                                     /\ req[w].user = Debtor(sid)
         /\ \E w \in SettleWorkers : req[w].status # 404)
        => /\ Cardinality(LinkedPayments(sid)) = 1
           /\ splits[sid].is_paid

\* C3: settlement is atomic: in every state a split has the completed
\* Payment that settle links to it exactly when the split has is_paid =
\* true; never one effect of a settle call without the other.
C3_SettleAtomic ==
    \A sid \in SplitIds :
        (\E p \in LinkedPayments(sid) :
            /\ payments[p].description = SettlementDescription(sid)
            /\ payments[p].status = "completed")
        <=> splits[sid].is_paid

\* C4: when a user who is not the debtor (the payer included) calls settle
\* on an existing outstanding split, the response is Forbidden and no row
\* changes: no Payment is created and is_paid stays false.
C4_SettleForbidden ==
    [][\A u \in Users, sid \in 1..2 :
         (Outstanding(sid) /\ Debtor(sid) # u /\ settle_expenditure_split(u, sid))
           => /\ last'.op = "settle" /\ last'.status = 403
              /\ payments' = payments
              /\ splits' = splits
              /\ expenditures' = expenditures
      ]_vars

\* A settle call was answered Forbidden while an outstanding split whose
\* debtor is not its payer exists, and no payment was recorded.
C4_Witness ==
    /\ last.op = "settle" /\ last.status = 403
    /\ \E sid \in SplitIds : Outstanding(sid) /\ Payer(sid) # Debtor(sid)
    /\ payments = <<>>

\* C5: a successful settle(split, acting_user) creates exactly one Payment,
\* with from_user = acting_user, to_user = the payer of the split's
\* expenditure, amount = the split's amount, status = completed and
\* expenditure_split = the split, and sets the split's is_paid to true.
C5_SettleEffect ==
    [][\A u \in Users, sid \in 1..2 :
         (last'.status = 200 /\ settle_expenditure_split(u, sid))
           => /\ Len(payments') = Len(payments) + 1
              /\ \A p \in 1..Len(payments) : payments'[p] = payments[p]
              /\ LET new == payments'[Len(payments')]
                 IN /\ new.from_user = u
                    /\ new.to_user = Payer(sid)
                    /\ new.amount = splits[sid].amount
                    /\ new.status = "completed"
                    /\ new.expenditure_split = sid
              /\ splits'[sid].is_paid
              /\ \A i \in SplitIds \ {sid} : splits'[i] = splits[i]
      ]_vars

\* A settle call succeeded: the payment it returned pays the split's amount
\* from the debtor to a different user, the payer, and the split is paid.
C5_Witness ==
    /\ last.op = "settle" /\ last.status = 200
    /\ LET new == payments[last.body.id]
       IN /\ new # Deleted
          /\ splits[new.expenditure_split].is_paid
          /\ new.from_user # new.to_user
          /\ new.amount < expenditures[splits[new.expenditure_split].expenditure].amount

\* C6: in every state reached by creating expenditures, settling and
\* creating, updating or deleting payments, every split referenced by a
\* Payment with status completed has is_paid = true.
C6_CompletedImpliesPaid ==
    \A sid \in SplitIds :
        (\E p \in LinkedPayments(sid) : payments[p].status = "completed")
        => splits[sid].is_paid

\* C7: when an expenditure is created (equal or custom mode), the payer's
\* own split, if the payer is a participant, has is_paid = true right after
\* creation, and every other participant's split has is_paid = false.
C7_PayerSplitPaid ==
    (last.op = "create_expenditure" /\ last.status = 201)
    => \A i \in SplitIds :
          splits[i].expenditure = last.body.id
          => (splits[i].is_paid <=> splits[i].user = last.body.user)

\* The request's custom-split data is unusable: a list is missing or empty,
\* the lengths differ, or the amounts do not add up to the total.
BadCustomSplit(data) ==
    \/ data.split_user_ids = <<>>
    \/ data.custom_amounts = <<>>
    \/ Len(data.split_user_ids) # Len(data.custom_amounts)
    \/ SumSeq(data.custom_amounts) # data.amount

\* C8: a create-expenditure request in custom mode whose participant list or
\* custom amounts are missing or empty, or differ in length, or whose
\* amounts do not sum exactly to the expenditure amount, is rejected with a
\* validation error and persists no Expenditure and no ExpenditureSplit.
C8_CustomRejected ==
    [][(/\ last'.op = "create_expenditure"
        /\ last'.body.data.split_type = "custom"
        /\ BadCustomSplit(last'.body.data))
       => /\ last'.status = 400
          /\ expenditures' = expenditures
          /\ splits' = splits
      ]_vars

\* A custom request with as many amounts as participants, summing to
\* another total than the expenditure's, was answered 400 and the ledger is
\* still empty.
C8_Witness ==
    /\ last.op = "create_expenditure" /\ last.status = 400
    /\ LET d == last.body.data
       IN /\ d.split_type = "custom"
          /\ d.split_user_ids # <<>>
          /\ Len(d.split_user_ids) = Len(d.custom_amounts)
          /\ SumSeq(d.custom_amounts) # d.amount
    /\ expenditures = <<>> /\ splits = <<>>

\* C9: the balance query of user u returns total_owed = the sum of the
\* unpaid splits whose debtor is u and whose expenditure u did not pay,
\* total_owes = the sum of the unpaid splits of expenditures u paid whose
\* debtor is not u, and balance = total_owes - total_owed; zero where no
\* split matches.
C9_Balance ==
    (last.op = "balance")
    => LET u == last.body.user
           owed == AmountWhere(LAMBDA i :
                       Debtor(i) = u /\ ~splits[i].is_paid /\ Payer(i) # u)
           owes == AmountWhere(LAMBDA i :
                       Payer(i) = u /\ ~splits[i].is_paid /\ Debtor(i) # u)
       IN /\ last.status = 200
          /\ last.body.total_owed = owed
          /\ last.body.total_owes = owes
          /\ last.body.balance = owes - owed

\* A balance was returned to a user who both owes and is owed, with a
\* split of their own expenditure charged to them and still unpaid.
C9_Witness ==
    /\ last.op = "balance"
    /\ last.body.total_owed > 0
    /\ last.body.total_owes > 0
    /\ last.body.balance < 0
    /\ \E i \in SplitIds : /\ Debtor(i) = last.body.user
                           /\ Payer(i) = last.body.user
                           /\ ~splits[i].is_paid

\* C10: the summary of an occasion reports total_expenditures = the sum of
\* the amounts of the expenditures of the occasion's events (paid or not),
\* total_events = the number of the occasion's events, and user_balances
\* with exactly one entry for each payer of such an expenditure and each
\* debtor of one of its splits, and for nobody else.
C10_Summary ==
    (last.op = "summary" /\ last.status = 200)
    => LET evs == {e \in Events : EventOccasion(e) = last.body.occasion}
           exps == {x \in ExpenditureIds : expenditures[x].event \in evs}
           people == {expenditures[x].paid_by : x \in exps}
                     \cup {Debtor(i) : i \in {j \in SplitIds :
                                                splits[j].expenditure \in exps}}
           entries == last.body.user_balances
       IN /\ last.body.total_expenditures =
                 SumSeq([x \in 1..Len(expenditures) |->
                            IF x \in exps THEN expenditures[x].amount ELSE 0])
          /\ last.body.total_events = Cardinality(evs)
          /\ {entries[k].user : k \in 1..Len(entries)} = people
          /\ Len(entries) = Cardinality(people)

\* A summary was returned for an occasion with an expenditure some of whose
\* splits are paid, whose payer owes nothing there, while another
\* expenditure lies outside the occasion and one user has no entry.
C10_Witness ==
    /\ last.op = "summary" /\ last.status = 200
    /\ last.body.total_expenditures > 0
    /\ Len(last.body.user_balances) = 2
    /\ \E i \in SplitIds : splits[i].is_paid /\ EventOccasion(EventOf(i)) = last.body.occasion
    /\ \E x \in ExpenditureIds :
          EventOccasion(expenditures[x].event) # last.body.occasion
    /\ \E k \in 1..2 : /\ last.body.user_balances[k].total_owed = 0
                       /\ last.body.user_balances[k].total_owes > 0
\* C11: is_paid is monotonic: over every operation (create, update or
\* delete of an expenditure, settle, create, update or delete of a payment)
\* a split that has is_paid = true has is_paid = true afterwards, if it
\* still exists.
C11_PaidMonotonic ==
    [][\A i \in SplitIds :
          (splits[i].is_paid /\ Live(splits'[i])) => splits'[i].is_paid
      ]_vars

\* A split is paid, the payment that settled it has since been deleted and
\* its expenditure has been given another total.
C11_Witness ==
    /\ \E i \in SplitIds :
          /\ splits[i].is_paid
          /\ LinkedPayments(i) = {}
          /\ expenditures[splits[i].expenditure].amount = 2
    /\ \E p \in 1..Len(payments) : payments[p] = Deleted
\* C12: when two settle calls by the debtor race on the same outstanding
\* split and one of them succeeds, the other ends with a NotFound (404) or
\* Conflict (409) response, whatever the order of the two calls' read,
\* insert and save steps.
C12_RaceLoserOutcome ==
    \A sid \in SplitIds :
        (/\ \A w \in SettleWorkers : /\ req[w].pc = "done"
                                     /\ req[w].split = sid
                                     /\ req[w].user = Debtor(sid)
         /\ \E w \in SettleWorkers : req[w].status = 200)
        => \A w \in SettleWorkers : req[w].status \in {200, 404, 409}
\* C13: the response of settle to a caller who is not the debtor does not
\* depend on whether the split exists: with an outstanding split owed by
\* someone else, the caller gets the status they would get on the same
\* ledger without that split.
C13_NoExistenceLeak ==
    \A u \in Users, sid \in SplitIds :
        (/\ sid = Len(splits)
         /\ Outstanding(sid)
         /\ Debtor(sid) # u
         /\ LinkedPayments(sid) = {})
        => SettleStatus(splits, payments, u, sid)
             = SettleStatus(SubSeq(splits, 1, sid - 1), payments, u, sid)
\* C14: settle answers the same NotFound, and changes no row, both when the
\* split id never existed and when the split exists but is already
\* settled, whoever the caller is.
C14_SettleNotFound ==
    [][\A u \in Users, sid \in 1..2 :
          (/\ sid \notin SplitIds \/ splits[sid].is_paid
           /\ last'.op = "settle"
           /\ settle_expenditure_split(u, sid))
          => /\ last' = Resp("settle", 404, NoBody)
             /\ store' = store
      ]_vars

\* Settle was answered 404 on a ledger whose only split is settled: the
\* call named that split or an id no split has.
C14_Witness ==
    /\ last = Resp("settle", 404, NoBody)
    /\ SplitIds = {1}
    /\ splits[1].is_paid
    /\ LinkedPayments(1) # {}
\* C15: in every state, every split with is_paid = true (set by settle, the
\* only operation that sets it) has a Payment linked to it whose status is
\* completed, whatever payment updates and deletions came later.
C15_PaidHasCompletedPayment ==
    \A sid \in SplitIds :
        splits[sid].is_paid
        => \E p \in LinkedPayments(sid) : payments[p].status = "completed"
\* C16: in every state at most one Payment references any given split,
\* under every order and interleaving of settle calls and of manual
\* payment creations and updates that name a split.
C16_OnePaymentPerSplit ==
    \A sid \in SplitIds : Cardinality(LinkedPayments(sid)) <= 1

\* A settle call was refused by the unique index (500) while a manual
\* payment held the split, and the split has its one Payment.
C16_Witness ==
    \E w \in SettleWorkers :
        /\ req[w].pc = "done" /\ req[w].status = 500
        /\ Cardinality(LinkedPayments(req[w].split)) = 1
        /\ \E p \in LinkedPayments(req[w].split) :
              payments[p].description = "Test payment"
\* C17: creating an expenditure with its splits is all-or-nothing: after a
\* create request that did not succeed (a participant listed twice, say),
\* neither the Expenditure nor any of its ExpenditureSplits is persisted.
C17_CreateAllOrNothing ==
    (last.op = "create_expenditure" /\ last.status # 201)
    => (expenditures = <<>> /\ splits = <<>>)
\* C18: in every state, for every expenditure in custom mode, the amounts
\* of its splits add up to the expenditure's amount exactly, also after
\* the expenditure has been updated.
C18_CustomSumEqualsAmount ==
    \A x \in ExpenditureIds :
        expenditures[x].split_type = "custom"
        => AmountWhere(LAMBDA i : splits[i].expenditure = x) = expenditures[x].amount
\* C19: every ExpenditureSplit has amount > 0 after every accepted create
\* request, in equal mode (any total of at least 0.01, any number of
\* participants, shares stored at 2 decimal places) and in custom mode (any
\* custom amounts that pass validation).
C19_SplitAmountPositive ==
    (last.op = "create_expenditure" /\ last.status = 201)
    => \A i \in SplitIds : splits[i].amount > 0
\* C20: an equal-mode creation with total T and N participants (N users,
\* none listed twice), where T divides evenly into N shares of 2 decimal
\* places, creates exactly N splits, one per participant, each of amount
\* T/N, whose amounts add up to T.
C20_EqualSplitExact ==
    (/\ last.op = "create_expenditure"
     /\ last.body.data.split_type = "equal"
     /\ Len(last.body.data.split_user_ids) >= 1
     /\ \A j, k \in 1..Len(last.body.data.split_user_ids) :
           last.body.data.split_user_ids[j] = last.body.data.split_user_ids[k] => j = k
     /\ last.body.data.amount % Len(last.body.data.split_user_ids) = 0)
    => LET ids == last.body.data.split_user_ids
           T == last.body.data.amount
       IN /\ last.status = 201
          /\ Len(splits) = Len(ids)
          /\ \A i \in 1..Len(ids) :
                /\ splits[i].expenditure = last.body.id
                /\ splits[i].user = ids[i]
                /\ splits[i].amount * Len(ids) = T
          /\ AmountWhere(LAMBDA i : TRUE) = T

\* Two cents were split equally between two users, one cent each.
C20_Witness ==
    /\ last.op = "create_expenditure" /\ last.status = 201
    /\ last.body.data.split_type = "equal"
    /\ last.body.data.amount = 2
    /\ Len(splits) = 2
    /\ splits[1].amount = 1 /\ splits[2].amount = 1
    /\ splits[1].user # splits[2].user
\* C21: equal-mode creation never loses cents: for every total T and every
\* number N >= 1 of participants (none listed twice), the stored split
\* amounts add up to exactly T, also when N does not divide T.
C21_EqualSplitKeepsCents ==
    (/\ last.op = "create_expenditure"
     /\ last.status = 201
     /\ last.body.data.split_type = "equal"
     /\ Len(last.body.data.split_user_ids) >= 1)
    => AmountWhere(LAMBDA i : splits[i].expenditure = last.body.id)
         = last.body.data.amount
\* The split is among those settled by the first k payments of the ledger.
SettledAsOf(i, k) ==
    \E p \in 1..k : p <= Len(payments) /\ payments[p].expenditure_split = i

\* The triple of user u on the ledger of the first n splits with the first
\* k settlements done.
TripleAsOf(u, n, k) ==
    LET owed == AmountWhere(LAMBDA i :
                    i <= n /\ Debtor(i) = u /\ Payer(i) # u /\ ~SettledAsOf(i, k))
        owes == AmountWhere(LAMBDA i :
                    i <= n /\ Payer(i) = u /\ Debtor(i) # u /\ ~SettledAsOf(i, k))
    IN [user |-> u, balance |-> owes - owed,
        total_owed |-> owed, total_owes |-> owes]

\* C22: a balance computed while settlements and creations go on returns
\* the triple (total_owed, total_owes, balance) of one ledger state that
\* existed during the computation.  The splits are created and settled in
\* the order of their keys and of their payments, so such a state holds
\* the first n splits and the first k settlements, n and k between their
\* numbers at the request's first query and at its last.
C22_BalanceSnapshot ==
    (req[1].pc = "done")
    => \E n \in req[1].rows_from .. req[1].rows_to,
          k \in Cardinality(req[1].paid_from) .. Cardinality(req[1].paid_to) :
             req[1].body = TripleAsOf(req[1].user, n, k)
\* C23: every Payment created by the manual create-payment operation has
\* from_user = the acting user and status = pending, for every request the
\* operation accepts.
C23_ManualPaymentPending ==
    [][\A u \in Users, data \in PaymentRequests :
          (/\ last'.op = "create_payment" /\ last'.status = 201
           /\ CreatePayment(u, data))
          => /\ payments'[last'.body.id].from_user = u
             /\ payments'[last'.body.id].status = "pending"
      ]_vars
\* C24: an expenditure's amount and split mode never change after
\* creation: over every operation, the expenditure update included, each
\* existing expenditure keeps its amount and its split mode.
C24_AmountModeImmutable ==
    [][\A x \in ExpenditureIds :
          Live(expenditures'[x])
          => /\ expenditures'[x].amount = expenditures[x].amount
             /\ expenditures'[x].split_type = expenditures[x].split_type
      ]_vars

\* C25: in every state no two ExpenditureSplits share the same
\* (expenditure, user) pair, also after a create request that lists a
\* participant more than once.
C25_UniqueSplitPerUser ==
    \A i, j \in SplitIds :
        (splits[i].expenditure = splits[j].expenditure /\ splits[i].user = splits[j].user)
        => i = j

\* A create request listing one user twice was refused at the second
\* insert, after the first split of that user was stored.
C25_Witness ==
    /\ last.op = "create_expenditure" /\ last.status = 500
    /\ Len(last.body.data.split_user_ids) = 2
    /\ last.body.data.split_user_ids[1] = last.body.data.split_user_ids[2]
    /\ Len(splits) = 1
    /\ splits[1].user = last.body.data.split_user_ids[1]
\* The occasion of event e in the catalog evts; a deleted event is in none.
OccasionIn(evts, e) == IF Live(evts[e]) THEN evts[e].occasion ELSE None

\* The step adds, changes or removes rows (expenditures, splits), and every
\* row it adds, changes or removes belongs to an event outside occasion o,
\* before the step (if the row was there) and after it (if it still is).
OutsideChange(o) ==
    /\ <<expenditures', splits'>> # <<expenditures, splits>>
    /\ \A x \in 1..Len(expenditures') :
          (x > Len(expenditures) \/ expenditures'[x] # expenditures[x])
          => /\ Live(expenditures'[x])
                  => OccasionIn(events', expenditures'[x].event) # o
             /\ (x <= Len(expenditures) /\ Live(expenditures[x]))
                  => OccasionIn(events, expenditures[x].event) # o
    /\ \A i \in 1..Len(splits') :
          (i > Len(splits) \/ splits'[i] # splits[i])
          => /\ Live(splits'[i])
                  => OccasionIn(events', expenditures'[splits'[i].expenditure].event) # o
             /\ (i <= Len(splits) /\ Live(splits[i]))
                  => OccasionIn(events, expenditures[splits[i].expenditure].event) # o

\* The totals of user v over the splits of the events of occasion o only.
ScopedOwed(v, o) ==
    AmountWhere(LAMBDA i : /\ Debtor(i) = v /\ Payer(i) # v /\ ~splits[i].is_paid
                           /\ EventOccasion(expenditures[splits[i].expenditure].event) = o)
ScopedOwes(v, o) ==
    AmountWhere(LAMBDA i : /\ Payer(i) = v /\ Debtor(i) # v /\ ~splits[i].is_paid
                           /\ EventOccasion(expenditures[splits[i].expenditure].event) = o)

\* C26: in the occasion summary each participant's total_owed and
\* total_owes count only the splits whose expenditure belongs to an event
\* of that occasion, and adding, settling or removing a split of an
\* expenditure in an event outside the occasion changes no value of the
\* occasion's summary.
C26_SummaryScoped ==
    [][/\ (last'.op = "summary" /\ last'.status = 200)
          => \A k \in 1..Len(last'.body.user_balances), v \in Users, o \in Occasions :
                LET e == last'.body.user_balances[k]
                IN (e.user = v /\ last'.body.occasion = o)
                   => /\ e.total_owed = ScopedOwed(v, o)'
                      /\ e.total_owes = ScopedOwes(v, o)'
                      /\ e.balance = e.total_owes - e.total_owed
       /\ \A o \in Occasions : OutsideChange(o) => Summary(o)' = Summary(o)
      ]_vars

\* A summary lists a user with total_owed = 0 in the occasion while that
\* user has an unpaid debt to someone else in an event outside it.
C26_Witness ==
    /\ last.op = "summary" /\ last.status = 200
    /\ \E k \in 1..Len(last.body.user_balances) :
          /\ last.body.user_balances[k].total_owed = 0
          /\ \E i \in SplitIds :
                /\ Debtor(i) = last.body.user_balances[k].user
                /\ Payer(i) # Debtor(i)
                /\ ~splits[i].is_paid
                /\ EventOccasion(expenditures[splits[i].expenditure].event)
                     # last.body.occasion
\* C27: whenever a split exists with is_paid = false and the acting user
\* is its debtor, settle succeeds: it creates the linked completed Payment
\* and sets is_paid = true, whatever operations came before (a manual
\* payment naming the split, say).
C27_DebtorCanSettle ==
    [][\A u \in Users, sid \in 1..2 :
          (/\ last'.op = "settle"
           /\ Outstanding(sid) /\ Debtor(sid) = u
           /\ settle_expenditure_split(u, sid))
          => /\ last'.status = 200
             /\ splits'[sid].is_paid
             /\ \E p \in 1..Len(payments') :
                   /\ payments'[p] # Deleted
                   /\ payments'[p].expenditure_split = sid
                   /\ payments'[p].status = "completed"
                   /\ payments'[p].from_user = u
      ]_vars
RECURSIVE SumOfFunction(_, _)
\* The sum of f over the set S.
SumOfFunction(f, S) ==
    IF S = {} THEN 0
    ELSE LET x == CHOOSE y \in S : TRUE
         IN f[x] + SumOfFunction(f, S \ {x})

\* C28: balances are zero-sum: in every state the total_owes of all users
\* add up to the total_owed of all users, so the balances add up to zero;
\* and so do the user_balances of the summary of any occasion.
C28_ZeroSum ==
    /\ LET b == [u \in Users |-> BalanceOf(u, Events)]
       IN /\ SumOfFunction([u \in Users |-> b[u].total_owes], Users)
               = SumOfFunction([u \in Users |-> b[u].total_owed], Users)
          /\ SumOfFunction([u \in Users |-> b[u].balance], Users) = 0
    /\ \A o \in Occasions :
          LET e == Summary(o).user_balances
          IN /\ SumSeq([k \in 1..Len(e) |-> e[k].total_owes])
                  = SumSeq([k \in 1..Len(e) |-> e[k].total_owed])
             /\ SumSeq([k \in 1..Len(e) |-> e[k].balance]) = 0

\* Someone owes someone else, a payer has an unpaid split of their own
\* expenditure, and a split has been settled.
C28_Witness ==
    /\ \E i \in SplitIds : ~splits[i].is_paid /\ Payer(i) # Debtor(i)
    /\ \E i \in SplitIds : ~splits[i].is_paid /\ Payer(i) = Debtor(i)
                            /\ EventOccasion(expenditures[splits[i].expenditure].event) = 1
    /\ \E i \in SplitIds : splits[i].is_paid
    /\ \E u \in Users : BalanceOf(u, Events).balance < 0
\* C29: a successful settle of a split of amount a with debtor D and payer
\* P, D different from P, lowers D's total_owed by exactly a and P's
\* total_owes by exactly a, and changes no other user's total_owed or
\* total_owes, nor D's total_owes, nor P's total_owed.
C29_SettleMovesBalances ==
    [][\A sid \in SplitIds :
          (/\ last'.op = "settle" /\ last'.status = 200
           /\ Payer(sid) # Debtor(sid)
           /\ settle_expenditure_split(Debtor(sid), sid))
          => \A v \in Users :
                /\ BalanceOf(v, Events)'.total_owed =
                      BalanceOf(v, Events).total_owed
                        - (IF v = Debtor(sid) THEN splits[sid].amount ELSE 0)
                /\ BalanceOf(v, Events)'.total_owes =
                      BalanceOf(v, Events).total_owes
                        - (IF v = Payer(sid) THEN splits[sid].amount ELSE 0)
      ]_vars

\* A debtor has just settled a split with another user's expenditure while
\* the other split of that expenditure is still owed to the payer.
C29_Witness ==
    /\ last.op = "settle" /\ last.status = 200
    /\ LET new == payments[last.body.id]
       IN /\ new.from_user # new.to_user
          /\ \E i \in SplitIds :
                /\ splits[i].expenditure = splits[new.expenditure_split].expenditure
                /\ ~splits[i].is_paid
                /\ Debtor(i) # Payer(i)
          /\ BalanceOf(new.to_user, Events).total_owes > 0
\* C30: settlement never produces a self-payment: no completed payment
\* that settle created for a split has from_user equal to to_user.
C30_NoSelfSettlement ==
    \A p \in PaymentIds :
        (/\ payments[p].expenditure_split # None
         /\ payments[p].status = "completed"
         /\ payments[p].description =
               SettlementDescription(payments[p].expenditure_split))
        => payments[p].from_user # payments[p].to_user
\* A payment that settle did not create: it does not carry the settlement
\* description of the split it is linked to.
ManualPayment(p) ==
    ~(/\ p.expenditure_split # None
      /\ p.description = SettlementDescription(p.expenditure_split))

\* The step is an accepted create, update or delete of a manual payment.
ManualPaymentStep ==
    \/ /\ last'.op = "create_payment" /\ last'.status = 201
       /\ ManualPayment(payments'[last'.body.id])
    \/ /\ last'.op = "update_payment" /\ last'.status = 200
       /\ ManualPayment(payments[last'.body.id])
    \/ /\ last'.op = "delete_payment" /\ last'.status = 204
       /\ \E pid \in PaymentIds :
             /\ payments[pid] # Deleted
             /\ payments'[pid] = Deleted
             /\ ManualPayment(payments[pid])

\* C31: creating, updating or deleting a manual payment leaves every
\* split's is_paid unchanged, and with it every user's total_owed,
\* total_owes and balance.  The balances read the expenditures and the
\* splits only, so they are recomputed only on a step that touches either.
C31_ManualPaymentFrame ==
    [][ManualPaymentStep
        => /\ Len(splits') = Len(splits)
           /\ \A i \in 1..Len(splits) :
                 /\ Live(splits'[i]) <=> Live(splits[i])
                 /\ Live(splits[i]) => splits'[i].is_paid = splits[i].is_paid
           /\ \/ <<expenditures', splits'>> = <<expenditures, splits>>
              \/ \A v \in Users : BalanceOf(v, Events)' = BalanceOf(v, Events)
      ]_vars

\* A completed manual payment linked to split 1 has just been accepted
\* while split 1 is still unpaid and still counts in its debtor's balance.
C31_Witness ==
    /\ last.op = "create_payment" /\ last.status = 201
    /\ LET new == payments[last.body.id]
       IN /\ ManualPayment(new)
          /\ new.status = "completed"
          /\ new.expenditure_split = 1
    /\ Outstanding(1)
    /\ Debtor(1) # Payer(1)
    /\ BalanceOf(Debtor(1), Events).total_owed > 0
====
